---- MODULE Spec2Model ----
(***************************************************************************)
(* Text-to-index encoding of the claim classifier:                         *)
(*   notebooks/04 Deploy Classifier Web Service.ipynb                      *)
(*     remove_special_characters, convert_to_indices, the                  *)
(*     "Preprocess the test data" cell and scoring_service.py              *)
(*   notebooks/03 Claim Classification.ipynb (the same two functions and   *)
(*     the same pad_sequences call)                                        *)
(*                                                                         *)
(* A Python str is a sequence of one-character strings, so that split,     *)
(* lower and the punctuation filter are computed character by character.   *)
(***************************************************************************)
EXTENDS Integers, Sequences, FiniteSets, TLC

VARIABLES dictonary, contractions, test_claim, test_claim_indices, test_data, pc,
          deployment, globals, init_pc, init_stdout, calls

\* the notebook: the globals of the "Preprocess the test data" cells
notebook_vars == <<dictonary, contractions, test_claim, test_claim_indices, test_data, pc>>

\* scoring_service.py: what is deployed, the globals of the module, where
\* init is and what it has printed, and the calls of run
service_vars == <<deployment, globals, init_pc, init_stdout, calls>>

vars == <<notebook_vars, service_vars>>

----------------------------------------------------------------------------
(* Program constants *)

maxSeqLength == 125

unk_word_index == 399999

----------------------------------------------------------------------------
(* Bounds of the checked inputs *)

MaxTextLen == 3

MaxOver == 1

MaxTokens == 3
\* claim texts in a request of more than one
MaxBatch == 2

----------------------------------------------------------------------------
(* Python values: results and exceptions *)

Return(v) == [exc |-> "none", value |-> v]

Raise(e) == [exc |-> e, value |-> <<>>]

Min(a, b) == IF a < b THEN a ELSE b

----------------------------------------------------------------------------
(* str methods *)

\* string.punctuation (its double quote and backquote cannot be written as
\* TLA+ strings; no checked input holds them)
Punctuation ==
    {"!", "#", "$", "%", "&", "'", "(", ")", "*", "+", ",", "-", ".",
     "/", ":", ";", "<", "=", ">", "?", "@", "[", "\\", "]", "^", "_",
     "{", "|", "}", "~"}

\* the characters str.split() splits on
Whitespace == {" ", "\t", "\n", "\r"}

UpperCase ==
    <<"A", "B", "C", "D", "E", "F", "G", "H", "I", "J", "K", "L", "M",
      "N", "O", "P", "Q", "R", "S", "T", "U", "V", "W", "X", "Y", "Z">>

LowerCase ==
    <<"a", "b", "c", "d", "e", "f", "g", "h", "i", "j", "k", "l", "m",
      "n", "o", "p", "q", "r", "s", "t", "u", "v", "w", "x", "y", "z">>

lower_char(c) ==
    IF \E i \in 1..Len(UpperCase) : UpperCase[i] = c
    THEN LowerCase[CHOOSE i \in 1..Len(UpperCase) : UpperCase[i] = c]
    ELSE c

\* str.lower()
lower(s) == [i \in 1..Len(s) |-> lower_char(s[i])]

\* Loops run their iterations lo..hi in order.  To keep the evaluation
\* shallow a range is run as its first half followed by its second half, the
\* second starting from the state the first ends in.

\* str.split() reading one character: cur is the piece being read
split_char(c, st) ==
    IF c \in Whitespace
    THEN [cur |-> <<>>, out |-> IF st.cur = <<>> THEN st.out ELSE Append(st.out, st.cur)]
    ELSE [cur |-> Append(st.cur, c), out |-> st.out]

RECURSIVE split_scan(_, _, _, _)
split_scan(s, lo, hi, st) ==
    IF lo > hi THEN st
    ELSE IF lo = hi THEN split_char(s[lo], st)
    ELSE LET mid == (lo + hi) \div 2
             left == split_scan(s, lo, mid, st)
         IN  \* the test makes TLC evaluate the first half before the second
             IF Len(left.out) >= 0 THEN split_scan(s, mid + 1, hi, left) ELSE left

\* str.split(): the maximal runs of non-whitespace characters, in order
split(s) ==
    LET st == split_scan(s, 1, Len(s), [cur |-> <<>>, out |-> <<>>]) IN
    IF st.cur = <<>> THEN st.out ELSE Append(st.out, st.cur)

----------------------------------------------------------------------------
(* The words list.  An entry [skip |-> n, word |-> w] is the word w       *)
(* preceded in the list by n words that the checked inputs cannot spell    *)
(* (the words list has 400,000 entries); n = 0 for adjacent words.         *)

RECURSIVE list_index_from(_, _, _, _)
\* scan from entry k, the entries before it filling positions 0..position-1
list_index_from(list, x, k, position) ==
    IF k > Len(list)
    THEN Raise("ValueError")
    ELSE IF list[k].word = x
         THEN Return(position + list[k].skip)
         ELSE list_index_from(list, x, k + 1, position + list[k].skip + 1)

\* variant: positions counted from 1
list_index_one_based(list, x) == list_index_from(list, x, 1, 1)

\* dictonary.index(x): the zero-based position of the first entry equal to x
list_index(list, x) == list_index_from(list, x, 1, 0)

RECURSIVE list_len_from(_, _)
list_len_from(list, k) ==
    IF k > Len(list) THEN 0 ELSE list[k].skip + 1 + list_len_from(list, k + 1)

\* len(dictonary)
list_len(list) == list_len_from(list, 1)

----------------------------------------------------------------------------
(* remove_special_characters and convert_to_indices *)

\* variant: only the first punctuation character is taken out
remove_special_characters_first(token) ==
    LET found == {i \in 1..Len(token) : token[i] \in Punctuation} IN
    IF found = {} THEN token
    ELSE LET k == CHOOSE i \in found : \A j \in found : i <= j IN
         SubSeq(token, 1, k - 1) \o SubSeq(token, k + 1, Len(token))

\* variant: the token is given back as it is
remove_special_characters_kept(token) == token

remove_special_characters(token) ==
    SelectSeq(token, LAMBDA c : c \notin Punctuation)

\* variant: no except clause around the lookup
resolved_word_step_no_except(resolved_word, dict, unk, sequence) ==
    LET word_index == list_index(dict, resolved_word) IN
    IF word_index.exc = "none"
    THEN Return(Append(sequence, word_index.value))
    ELSE word_index

\* variant: the expansion's words are cleaned like the other tokens
resolved_word_step_cleaned(resolved_word, dict, unk, sequence) ==
    LET word_index == list_index(dict, remove_special_characters(resolved_word)) IN
    IF word_index.exc = "none"
    THEN Return(Append(sequence, word_index.value))
    ELSE IF word_index.exc = "ValueError"
         THEN Return(Append(sequence, unk))
         ELSE word_index

\* try: word_index = dictonary.index(resolved_word); sequence.append(word_index)
\* except ValueError: sequence.append(unk_word_index)
resolved_word_step(resolved_word, dict, unk, sequence) ==
    LET word_index == list_index(dict, resolved_word) IN
    IF word_index.exc = "none"
    THEN Return(Append(sequence, word_index.value))
    ELSE IF word_index.exc = "ValueError"
         THEN Return(Append(sequence, unk))
         ELSE word_index

RECURSIVE resolved_words_loop(_, _, _, _, _, _)
\* for resolved_word in resolved_words
resolved_words_loop(resolved_words, lo, hi, dict, unk, sequence) ==
    IF lo > hi THEN Return(sequence)
    ELSE IF lo = hi THEN resolved_word_step(resolved_words[lo], dict, unk, sequence)
    ELSE LET mid == (lo + hi) \div 2
             r == resolved_words_loop(resolved_words, lo, mid, dict, unk, sequence)
         IN  IF r.exc = "none"
             THEN resolved_words_loop(resolved_words, mid + 1, hi, dict, unk, r.value)
             ELSE r

\* variant: an index already in the sequence is not appended again
clean_word_step_dedup(word, dict, unk, sequence) ==
    LET clean_word == remove_special_characters(word) IN
    IF Len(clean_word) > 0
    THEN LET word_index == list_index(dict, clean_word)
             index == IF word_index.exc = "none" THEN word_index.value ELSE unk
         IN  IF \E q \in 1..Len(sequence) : sequence[q] = index
             THEN Return(sequence)
             ELSE Return(Append(sequence, index))
    ELSE Return(sequence)

\* variant: "except ValueError: pass" (an unknown word is dropped)
clean_word_step_skip_unknown(word, dict, unk, sequence) ==
    LET clean_word == remove_special_characters(word) IN
    IF Len(clean_word) > 0
    THEN LET word_index == list_index(dict, clean_word) IN
         IF word_index.exc = "none"
         THEN Return(Append(sequence, word_index.value))
         ELSE Return(sequence)
    ELSE Return(sequence)

\* variant: no "if len(clean_word) > 0" around the lookup
clean_word_step_no_len_check(word, dict, unk, sequence) ==
    LET clean_word == remove_special_characters(word)
        word_index == list_index(dict, clean_word)
    IN  IF word_index.exc = "none"
        THEN Return(Append(sequence, word_index.value))
        ELSE IF word_index.exc = "ValueError"
             THEN Return(Append(sequence, unk))
             ELSE word_index

\* variant: -1 for a word that is not in the list, as str.find gives
clean_word_step_minus_one(word, dict, unk, sequence) ==
    LET clean_word == remove_special_characters(word) IN
    IF Len(clean_word) > 0
    THEN LET word_index == list_index(dict, clean_word) IN
         IF word_index.exc = "none"
         THEN Return(Append(sequence, word_index.value))
         ELSE Return(Append(sequence, -1))
    ELSE Return(sequence)

\* try: clean_word = remove_special_characters(word)
\*      if len(clean_word) > 0: word_index = ...; sequence.append(word_index)
\* except ValueError: sequence.append(unk_word_index)
clean_word_step(word, dict, unk, sequence) ==
    LET clean_word == remove_special_characters(word) IN
    IF Len(clean_word) > 0
    THEN LET word_index == list_index(dict, clean_word) IN
         IF word_index.exc = "none"
         THEN Return(Append(sequence, word_index.value))
         ELSE IF word_index.exc = "ValueError"
              THEN Return(Append(sequence, unk))
              ELSE word_index
    ELSE Return(sequence)

\* variant: the punctuation is taken out before the contraction map is read
word_step_clean_first(token, dict, c_map, unk, sequence) ==
    LET word == remove_special_characters(lower(token)) IN
    IF word \in DOMAIN c_map
    THEN LET resolved_words == split(c_map[word]) IN
         resolved_words_loop(resolved_words, 1, Len(resolved_words), dict, unk, sequence)
    ELSE clean_word_step(word, dict, unk, sequence)

\* variant: the contraction map is read before the token is lowercased
word_step_no_lower(token, dict, c_map, unk, sequence) ==
    IF token \in DOMAIN c_map
    THEN LET resolved_words == split(c_map[token]) IN
         resolved_words_loop(resolved_words, 1, Len(resolved_words), dict, unk, sequence)
    ELSE clean_word_step(lower(token), dict, unk, sequence)

\* the body of "for word in tokens"
word_step(token, dict, c_map, unk, sequence) ==
    LET word == lower(token) IN
    IF word \in DOMAIN c_map
    THEN LET resolved_words == split(c_map[word]) IN
         resolved_words_loop(resolved_words, 1, Len(resolved_words), dict, unk, sequence)
    ELSE clean_word_step(word, dict, unk, sequence)

RECURSIVE tokens_loop(_, _, _, _, _, _, _)
\* for word in tokens
tokens_loop(tokens, lo, hi, dict, c_map, unk, sequence) ==
    IF lo > hi THEN Return(sequence)
    ELSE IF lo = hi THEN word_step(tokens[lo], dict, c_map, unk, sequence)
    ELSE LET mid == (lo + hi) \div 2
             r == tokens_loop(tokens, lo, mid, dict, c_map, unk, sequence)
         IN  IF r.exc = "none"
             THEN tokens_loop(tokens, mid + 1, hi, dict, c_map, unk, r.value)
             ELSE r

\* tokens = corpus[i].split(); sequence = []; for word in tokens: ...;
\* sequences.append(sequence)
corpus_step(text, dict, c_map, unk, sequences) ==
    LET tokens == split(text)
        r == tokens_loop(tokens, 1, Len(tokens), dict, c_map, unk, <<>>)
    IN  IF r.exc = "none" THEN Return(Append(sequences, r.value)) ELSE r

RECURSIVE corpus_loop(_, _, _, _, _, _, _)
\* for i in range(len(corpus))
corpus_loop(corpus, lo, hi, dict, c_map, unk, sequences) ==
    IF lo > hi THEN Return(sequences)
    ELSE IF lo = hi THEN corpus_step(corpus[lo], dict, c_map, unk, sequences)
    ELSE LET mid == (lo + hi) \div 2
             r == corpus_loop(corpus, lo, mid, dict, c_map, unk, sequences)
         IN  IF r.exc = "none"
             THEN corpus_loop(corpus, mid + 1, hi, dict, c_map, unk, r.value)
             ELSE r

convert_to_indices(corpus, dict, c_map) ==
    corpus_loop(corpus, 1, Len(corpus), dict, c_map, unk_word_index, <<>>)

----------------------------------------------------------------------------
(* keras pad_sequences *)

Fill(n, v) == [i \in 1..n |-> v]

\* one row of the array pad_sequences returns
pad_sequences_row(s, maxlen, padding, truncating, value) ==
    LET trunc == IF truncating = "pre"
                 THEN SubSeq(s, Len(s) - Min(Len(s), maxlen) + 1, Len(s))
                 ELSE SubSeq(s, 1, Min(Len(s), maxlen))
    IN  IF padding = "post"
        THEN trunc \o Fill(maxlen - Len(trunc), value)
        ELSE Fill(maxlen - Len(trunc), value) \o trunc

Max(S) == CHOOSE m \in S : \A n \in S : n <= m

\* variant: maxlen left out of the call (rows as long as the longest sequence)
pad_sequences_no_maxlen(sequences, maxlen) ==
    LET longest == Max({0} \cup {Len(sequences[i]) : i \in 1..Len(sequences)}) IN
    [i \in 1..Len(sequences) |->
        pad_sequences_row(sequences[i], longest, "pre", "post", 0)]

\* variant: padding='post'
pad_sequences_post_padding(sequences, maxlen) ==
    [i \in 1..Len(sequences) |->
        pad_sequences_row(sequences[i], maxlen, "post", "post", 0)]

\* variant: truncating left at its default, 'pre'
pad_sequences_pre_truncating(sequences, maxlen) ==
    [i \in 1..Len(sequences) |->
        pad_sequences_row(sequences[i], maxlen, "pre", "pre", 0)]

\* variant: the empty sequences get no row
pad_sequences_skip_empty(sequences, maxlen) ==
    LET kept == SelectSeq(sequences, LAMBDA s : s # <<>>) IN
    [i \in 1..Len(kept) |-> pad_sequences_row(kept[i], maxlen, "pre", "post", 0)]

\* pad_sequences(sequences, maxlen=maxSeqLength, padding='pre', truncating='post')
\* (value is left at its default, 0)
pad_sequences(sequences, maxlen) ==
    [i \in 1..Len(sequences) |->
        pad_sequences_row(sequences[i], maxlen, "pre", "post", 0)]

----------------------------------------------------------------------------
(* The checked inputs *)

TextChars == {"a", "b", "A", "'", " "}

SeqsUpTo(S, n) == UNION {[1..k -> S] : k \in 0..n}

\* every string of at most MaxTextLen characters
CharTexts == SeqsUpTo(TextChars, MaxTextLen)

RECURSIVE join_range(_, _, _)
join_range(tokens, lo, hi) ==
    IF lo > hi THEN <<>>
    ELSE IF lo = hi THEN tokens[lo]
    ELSE LET mid == (lo + hi) \div 2 IN
         join_range(tokens, lo, mid) \o <<" ">> \o join_range(tokens, mid + 1, hi)

\* the tokens written one after the other with one space between them
join(tokens) == join_range(tokens, 1, Len(tokens))

\* n tokens, cycling through the pattern p
Cycle(p, n) == [i \in 1..n |-> p[((i - 1) % Len(p)) + 1]]

LongPatterns ==
    {<< <<"a">>, <<"b">> >>,
     << <<"b">>, <<"A", "'">>, <<"a">> >>,
     << <<"A", "'">> >>,
     << <<"'">>, <<"a">> >>}

LongLens == (maxSeqLength - MaxOver)..(maxSeqLength + MaxOver)

\* texts of about maxSeqLength tokens
LongTexts == {join(Cycle(p, n)) : p \in LongPatterns, n \in LongLens}

Tokens == {<<"a">>, <<"b">>, <<"A", "'">>, <<"'">>}

\* texts of at most MaxTokens tokens
TokenTexts == {join(ts) : ts \in UNION {[1..k -> Tokens] : k \in 1..MaxTokens}}

Texts == CharTexts \cup TokenTexts

PairTexts == {<<>>, <<"a">>, <<"b", " ", "'">>}

\* one short claim text, or two
Corpora == {<<t>> : t \in Texts} \cup {<<t, u>> : t \in PairTexts, u \in PairTexts}

\* one long claim text
LongCorpora == {<<t>> : t \in LongTexts}

VocabWords == {<<"a">>, <<"b">>, <<"a", "'">>}

IsInjective(f) == \A i, j \in DOMAIN f : f[i] = f[j] => i = j

WordLists == {d \in SeqsUpTo(VocabWords, 2) : IsInjective(d)}

\* words one after the other from position 0
DenseVocabularies == {[k \in 1..Len(d) |-> [skip |-> 0, word |-> d[k]]] : d \in WordLists}

\* a words list of unk_word_index + 1 entries whose last word is d[Len(d)]
FullVocabularies ==
    {[k \in 1..Len(d) |->
        [skip |-> IF k = Len(d) THEN unk_word_index - (Len(d) - 1) ELSE 0, word |-> d[k]]] :
        d \in {e \in WordLists : Len(e) = 2}}

Vocabularies == DenseVocabularies \cup FullVocabularies

\* the words lists the long texts are encoded with
LongVocabularies == {v \in DenseVocabularies : Len(v) = 2}

ContractionKeys == {<<"a", "'">>, <<"b">>, <<"'">>}

Expansions == {<<"a">>, <<"b", " ", "a">>, <<"A">>, <<"a", "'">>}

\* the contraction maps of at most one entry
ContractionMaps ==
    {<<>>} \cup {[k \in {key} |-> e] : key \in ContractionKeys, e \in Expansions}

\* the contraction maps the long texts are encoded with
LongContractionMaps ==
    {m \in ContractionMaps : \A key \in DOMAIN m : m[key] = <<"b", " ", "a">>}

\* test_claim = ['I crashed my car into a pole.']
CrashClaim ==
    join(<< <<"I">>, <<"c", "r", "a", "s", "h", "e", "d">>, <<"m", "y">>,
            <<"c", "a", "r">>, <<"i", "n", "t", "o">>, <<"a">>,
            <<"p", "o", "l", "e", ".">> >>)

CrashCorpora == {<<CrashClaim>>}

\* words lists for that claim: all of its words, all but "crashed", and
\* "pole" followed by its punctuated form
CrashWordLists ==
    {<< <<"a">>, <<"i">>, <<"i", "n", "t", "o">>, <<"m", "y">>, <<"c", "a", "r">>,
        <<"p", "o", "l", "e">>, <<"c", "r", "a", "s", "h", "e", "d">> >>,
     << <<"p", "o", "l", "e">>, <<"c", "a", "r">>, <<"m", "y">>, <<"I">>,
        <<"i", "n", "t", "o">>, <<"i">>, <<"a">> >>,
     << <<"c", "r", "a", "s", "h", "e", "d">>, <<"p", "o", "l", "e", ".">>,
        <<"p", "o", "l", "e">>, <<"i">>, <<"a">>, <<"m", "y">>, <<"c", "a", "r">>,
        <<"i", "n", "t", "o">> >>}

\* the words from position 0, or with the last one at position unk_word_index
CrashVocabularies ==
    {[k \in 1..Len(d) |-> [skip |-> 0, word |-> d[k]]] : d \in CrashWordLists}
    \cup {[k \in 1..Len(d) |->
              [skip |-> IF k = Len(d) THEN unk_word_index - (Len(d) - 1) ELSE 0,
               word |-> d[k]]] : d \in CrashWordLists}

\* no contraction, or one that is not a token of the claim
CrashContractionMaps ==
    {<<>>, [k \in {<<"i", "'", "m">>} |-> <<"i", " ", "a", "m">>]}

\* the letter U+0131 (dotless i), written as its escape: str.lower() leaves
\* it as it is and str.upper() gives "I"
DotlessI == "\\u0131"

\* claim texts of one letter whose uppercase form is "I"
DotlessCorpora == {<< <<DotlessI>> >>, << <<"i">> >>}

----------------------------------------------------------------------------
(* scoring_service.py: json, numpy and onnxruntime as run uses them *)

\* what json.loads gives back: a str, an int, None or a list of such values
JStr(s) == [type |-> "str", str |-> s, int |-> 0, items |-> <<>>]

JInt(n) == [type |-> "int", str |-> <<>>, int |-> n, items |-> <<>>]

JNone == [type |-> "NoneType", str |-> <<>>, int |-> 0, items |-> <<>>]

JList(items) == [type |-> "list", str |-> <<>>, int |-> 0, items |-> items]

\* of the objects the empty one, {}
JDict == [type |-> "dict", str |-> <<>>, int |-> 0, items |-> <<>>]

\* a JSON text is the sequence of its lexical tokens: brackets, commas and
\* scalar literals
Open == [tok |-> "[", val |-> JNone]

Close == [tok |-> "]", val |-> JNone]

Comma == [tok |-> ",", val |-> JNone]

Scalar(v) == [tok |-> "scalar", val |-> v]

OpenBrace == [tok |-> "{", val |-> JNone]

CloseBrace == [tok |-> "}", val |-> JNone]

RECURSIVE json_dumps(_)
RECURSIVE json_dumps_items(_, _)
\* json.dumps(v), as the callers of the service write their requests
json_dumps(v) ==
    IF v.type = "list"
    THEN <<Open>> \o json_dumps_items(v.items, 1) \o <<Close>>
    ELSE IF v.type = "dict" THEN <<OpenBrace, CloseBrace>>
    ELSE <<Scalar(v)>>

json_dumps_items(items, k) ==
    IF k > Len(items) THEN <<>>
    ELSE (IF k > 1 THEN <<Comma>> ELSE <<>>)
         \o json_dumps(items[k]) \o json_dumps_items(items, k + 1)

Parsed(v, next) == [ok |-> TRUE, value |-> v, next |-> next]

NotParsed == [ok |-> FALSE, value |-> JNone, next |-> 0]

RECURSIVE json_value(_, _)
RECURSIVE json_items(_, _, _)
\* the JSON value that starts at token i
json_value(s, i) ==
    IF i > Len(s) THEN NotParsed
    ELSE IF s[i].tok = "scalar" THEN Parsed(s[i].val, i + 1)
    ELSE IF s[i].tok = "["
    THEN IF i + 1 <= Len(s) /\ s[i + 1].tok = "]"
         THEN Parsed(JList(<<>>), i + 2)
         ELSE json_items(s, i + 1, <<>>)
    ELSE IF s[i].tok = "{" /\ i + 1 <= Len(s) /\ s[i + 1].tok = "}"
    THEN Parsed(JDict, i + 2)
    ELSE NotParsed

\* the rest of a list whose first values are items, from token i
json_items(s, i, items) ==
    LET v == json_value(s, i) IN
    IF ~v.ok \/ v.next > Len(s) THEN NotParsed
    ELSE IF s[v.next].tok = ","
    THEN json_items(s, v.next + 1, Append(items, v.value))
    ELSE IF s[v.next].tok = "]"
    THEN Parsed(JList(Append(items, v.value)), v.next + 1)
    ELSE NotParsed

\* json.loads(raw_data)
json_loads(s) ==
    LET v == json_value(s, 1) IN
    IF v.ok /\ v.next = Len(s) + 1 THEN Return(v.value) ELSE Raise("JSONDecodeError")

Digits == <<"0", "1", "2", "3", "4", "5", "6", "7", "8", "9">>

RECURSIVE str_of_int(_)
\* str(n), n >= 0
str_of_int(n) ==
    IF n < 10 THEN <<Digits[n + 1]>>
    ELSE str_of_int(n \div 10) \o <<Digits[(n % 10) + 1]>>

\* np.array(v): a list becomes a one-dimensional array (of str when one of
\* its items is a str and none is a list or None, the numbers written out),
\* anything else an array without dimension
np_array(v) ==
    IF v.type # "list" THEN [dtype |-> v.type, shape |-> <<>>, data |-> <<v>>]
    ELSE IF v.items = <<>> THEN [dtype |-> "float64", shape |-> <<0>>, data |-> <<>>]
    ELSE LET types == {v.items[k].type : k \in 1..Len(v.items)} IN
         IF types \cap {"list", "NoneType"} # {}
         THEN [dtype |-> "object", shape |-> <<Len(v.items)>>, data |-> v.items]
         ELSE IF "str" \in types
         THEN [dtype |-> "str", shape |-> <<Len(v.items)>>,
               data |-> [k \in 1..Len(v.items) |->
                            IF v.items[k].type = "str" THEN v.items[k]
                            ELSE JStr(str_of_int(v.items[k].int))]]
         ELSE [dtype |-> "int64", shape |-> <<Len(v.items)>>, data |-> v.items]

NoArray == [dtype |-> "", shape |-> <<>>, data |-> <<>>]

\* x as a float32: every integer up to 2^24 is one, above it (and below
\* 2^25) only the even ones are, an odd one going to the multiple of 4 next
\* to it
float32(x) ==
    IF x <= 16777216 \/ x % 2 = 0 THEN x
    ELSE IF (x + 1) % 4 = 0 THEN x + 1 ELSE x - 1

\* a.astype(np.float32), a an array of two dimensions
astype_float32(a) == [i \in 1..Len(a) |-> [j \in 1..Len(a[i]) |-> float32(a[i][j])]]

\* variant: the rows that are missing are filled with zeros
np_reshape_zero_filled(a, newshape) ==
    Return([i \in 1..newshape[1] |->
               IF i <= Len(a) THEN a[i] ELSE [j \in 1..newshape[2] |-> 0]])

\* variant: the first row is kept and the other rows are dropped
np_reshape_first_row(a, newshape) ==
    IF Len(a) = 0 THEN Raise("ValueError") ELSE Return(<<a[1]>>)

\* np.reshape(a, newshape): a has two dimensions, rows of maxSeqLength
\* entries, and newshape is (rows, columns)
np_reshape(a, newshape) ==
    LET size == Len(a) * maxSeqLength
        flat == [k \in 1..size |-> a[((k - 1) \div maxSeqLength) + 1][((k - 1) % maxSeqLength) + 1]]
    IN  IF size # newshape[1] * newshape[2] THEN Raise("ValueError")
        ELSE Return([i \in 1..newshape[1] |->
                        [j \in 1..newshape[2] |-> flat[(i - 1) * newshape[2] + j]]])

\* the classifier stands for claim_classifier_onnx: for a row it gives the
\* two class scores, s0 and s1 + w * (number of entries that are not 0)
model_scores(model, row) ==
    <<model.s0,
      model.s1 + model.w * Cardinality({j \in 1..Len(row) : row[j] # 0})>>

\* onnx_session.run(None, {name: input_data}): the list of the outputs, the
\* one output being the array of the scores, a row for each input row
session_run(model, input_data) ==
    IF model.fails THEN Raise("RuntimeException")
    ELSE Return(<< [i \in 1..Len(input_data) |-> model_scores(model, input_data[i])] >>)

\* variant: of equal scores the last one
argmax_last(row) ==
    CHOOSE i \in 0..(Len(row) - 1) :
        /\ \A j \in 1..Len(row) : row[j] <= row[i + 1]
        /\ \A j \in (i + 2)..Len(row) : row[j] < row[i + 1]

\* variant: the position counted from 1
argmax_one_based(row) ==
    CHOOSE i \in 1..Len(row) :
        /\ \A j \in 1..Len(row) : row[j] <= row[i]
        /\ \A j \in 1..(i - 1) : row[j] < row[i]

\* the position of the first of the highest entries of a row
argmax(row) ==
    CHOOSE i \in 0..(Len(row) - 1) :
        /\ \A j \in 1..Len(row) : row[j] <= row[i + 1]
        /\ \A j \in 1..i : row[j] < row[i + 1]

\* a.argmax(axis=1)
argmax_axis1(a) == [i \in 1..Len(a) |-> argmax(a[i])]

\* a.item(): the one element of an array of size 1
item(a) == IF Len(a) = 1 THEN Return(a[1]) ELSE Raise("ValueError item")

\* what run gives back: an int or a str
IntResult(n) == [type |-> "int", label |-> n, error |-> ""]

StrResult(text) == [type |-> "str", label |-> 0, error |-> text]

NoResult == [type |-> "", label |-> 0, error |-> ""]

\* str(e)
str_of_exception(e) ==
    CASE e = "JSONDecodeError" -> "Expecting value"
      [] e = "TypeError" -> "len() of unsized object"
      [] e = "AttributeError" -> "object has no attribute 'split'"
      [] e = "AttributeError index" -> "'numpy.ndarray' object has no attribute 'index'"
      [] e = "ValueError" -> "cannot reshape array into shape (1,125)"
      [] e = "ValueError item" -> "can only convert an array of size 1 to a Python scalar"
      [] e = "NameError dictonary" -> "name 'dictonary' is not defined"
      [] e = "NameError contractions" -> "name 'contractions' is not defined"
      [] e = "NameError onnx_session" -> "name 'onnx_session' is not defined"
      [] OTHER -> e

----------------------------------------------------------------------------
(* scoring_service.py: the globals of the module and the calls of run *)

\* the callers whose requests the service works on at the same time
Callers == {"c1", "c2"}

\* word.encode('UTF-8'), the form of the words in wordsList.npy: a bytes
\* object is equal to no str
encode(word) == <<"bytes">> \o word

\* word.decode('UTF-8')
decode(word) == Tail(word)

\* wordsList.npy with the words d
wordsList_npy(d) == [k \in 1..Len(d) |-> [skip |-> 0, word |-> encode(d[k])]]

\* a classifier that gives label 1 to the rows with two entries that are
\* not 0 or more
CountingClassifier == [fails |-> FALSE, s0 |-> 1, s1 |-> 0, w |-> 1]

\* a classifier whose session fails when it is run
FailingClassifier == [fails |-> TRUE, s0 |-> 0, s1 |-> 0, w |-> 0]

\* the rows of contractions.xlsx
ContractionSheet == <<[original |-> <<"a", "'">>, expanded |-> <<"b", " ", "a">>]>>

\* what init downloads and loads: wordsList.npy, contractions.xlsx and the
\* registered model claim_classifier_onnx
Deployments ==
    {[wordsList |-> wordsList_npy(<< <<"a">>, <<"b">> >>),
      contractions_df |-> <<>>,
      claim_classifier_onnx |-> CountingClassifier],
     [wordsList |-> wordsList_npy(<< <<"b">> >>),
      contractions_df |-> ContractionSheet,
      claim_classifier_onnx |-> CountingClassifier],
     [wordsList |-> wordsList_npy(<< <<"a">>, <<"b">> >>),
      contractions_df |-> ContractionSheet,
      claim_classifier_onnx |-> FailingClassifier]}

\* dict(zip(contractions_df.original, contractions_df.expanded)): of the rows
\* with the same original, the last one stays
dict_zip(df) ==
    [key \in {df[k].original : k \in 1..Len(df)} |->
        df[CHOOSE k \in 1..Len(df) :
              /\ df[k].original = key
              /\ \A m \in (k + 1)..Len(df) : df[m].original # key].expanded]

\* a global of the module before init has assigned it
NoDictonary == [kind |-> "unbound", words |-> <<>>]

NoContractions == [kind |-> "unbound", map |-> <<>>]

NoSession == [kind |-> "unbound", model |-> FailingClassifier]

NoGlobals ==
    [dictonary |-> NoDictonary, contractions |-> NoContractions, onnx_session |-> NoSession]

\* the three globals hold what init leaves in them when nothing fails
AllLoaded(g) ==
    /\ g.dictonary.kind = "list of str"
    /\ g.contractions.kind = "dict"
    /\ g.onnx_session.kind = "InferenceSession"

\* the claim texts of the requests
ServiceTexts ==
    {<<"b", " ", "b">>, <<"A", "'", " ", "b">>, <<>>, <<" ">>, <<"'">>}

\* the claim texts of the requests of two claim texts or more, in order
BatchOrder == << <<"b", " ", "b">>, <<"A", "'", " ", "b">>, <<"a">> >>

\* a batch of claim texts as a JSON value
Batch(texts) == JList([k \in 1..Len(texts) |-> JStr(texts[k])])

\* json.dumps of a batch of claim texts
Batches ==
    {json_dumps(Batch(<<t>>)) : t \in ServiceTexts}
    \cup {json_dumps(Batch(SubSeq(BatchOrder, 1, n))) : n \in 2..MaxBatch}

\* the other requests: no claim text, a claim text outside of a list, an
\* object, a number for a claim text, and a list that is not closed
OtherPayloads ==
    {json_dumps(JList(<<>>)),
     json_dumps(JStr(<<"a">>)),
     json_dumps(JDict),
     json_dumps(JList(<<JInt(1)>>)),
     <<Open, Scalar(JStr(<<"a">>))>>}

Payloads == Batches \cup OtherPayloads

\* a call of run that has not started
NoCall ==
    [pc |-> "idle", raw_data |-> <<>>, called_ready |-> FALSE,
     input_data_raw |-> NoArray, dictonary |-> NoDictonary,
     input_data |-> <<>>, scores |-> <<>>, result |-> NoResult, stdout |-> <<>>]

\* variant: an element that is no str is taken for the empty str
element_exception_lenient(corpus, i, dict, c_map) ==
    IF /\ corpus.data[i].type = "str"
       /\ dict.kind = "ndarray"
       /\ convert_to_indices(<<corpus.data[i].str>>, <<>>, c_map).value[1] # <<>>
    THEN "AttributeError index"
    ELSE "none"

\* the element i of corpus or one of its words raises out of
\* convert_to_indices: an element that is no str has no split(), and a
\* numpy array has no index()
element_exception(corpus, i, dict, c_map) ==
    IF corpus.data[i].type # "str" THEN "AttributeError"
    ELSE IF /\ dict.kind = "ndarray"
            /\ convert_to_indices(<<corpus.data[i].str>>, <<>>, c_map).value[1] # <<>>
    THEN "AttributeError index"
    ELSE "none"

\* convert_to_indices(input_data_raw, dictonary, contractions) as run calls
\* it, corpus a numpy array and dict the value of the global dictonary
run_convert_to_indices(corpus, dict, c_map) ==
    IF corpus.shape = <<>> THEN Raise("TypeError")
    ELSE LET n == corpus.shape[1]
             failing == {i \in 1..n : element_exception(corpus, i, dict, c_map) # "none"}
         IN  IF failing # {}
             THEN Raise(element_exception(corpus, CHOOSE i \in failing : \A j \in failing : i <= j,
                                          dict, c_map))
             ELSE convert_to_indices([i \in 1..n |-> corpus.data[i].str], dict.words, c_map)

----------------------------------------------------------------------------
(* The "Preprocess the test data" cells *)

Init ==
    /\ \/ /\ dictonary \in Vocabularies
          /\ contractions \in ContractionMaps
          /\ test_claim \in Corpora
       \/ /\ dictonary \in LongVocabularies
          /\ contractions \in LongContractionMaps
          /\ test_claim \in LongCorpora
       \/ /\ dictonary \in CrashVocabularies
          /\ contractions \in CrashContractionMaps
          /\ test_claim \in CrashCorpora \cup DotlessCorpora
    /\ test_claim_indices = <<>>
    /\ test_data = <<>>
    /\ pc = "loaded"
    /\ deployment = CHOOSE d \in Deployments : TRUE
    /\ globals = NoGlobals
    /\ init_pc = "not_called"
    /\ init_stdout = <<>>
    /\ calls = [c \in Callers |-> NoCall]

\* test_claim_indices = convert_to_indices(test_claim, dictonary, contractions)
Convert ==
    /\ pc = "loaded"
    /\ LET r == convert_to_indices(test_claim, dictonary, contractions) IN
       IF r.exc = "none"
       THEN /\ test_claim_indices' = r.value
            /\ pc' = "converted"
       ELSE /\ test_claim_indices' = <<>>
            /\ pc' = r.exc
    /\ UNCHANGED <<dictonary, contractions, test_claim, test_data>>
    /\ UNCHANGED service_vars

\* test_data = pad_sequences(test_claim_indices, maxlen=maxSeqLength, ...)
Pad ==
    /\ pc = "converted"
    /\ test_data' = pad_sequences(test_claim_indices, maxSeqLength)
    /\ pc' = "padded"
    /\ UNCHANGED <<dictonary, contractions, test_claim, test_claim_indices>>
    /\ UNCHANGED service_vars

Next == Convert \/ Pad

Spec == Init /\ [][Next]_vars

----------------------------------------------------------------------------
(* scoring_service.py: init *)

\* variant: no try around the body of init
init_except_none(e) == [pc |-> "raised", printed |-> <<>>]

\* init, lines 451-452: the exception is printed and init returns
init_except(e) == [pc |-> "returned", printed |-> <<str_of_exception(e)>>]

\* variant: the except clause also takes back what init has assigned
init_fails_cleanup(e) ==
    /\ init_pc' = init_except(e).pc
    /\ init_stdout' = init_stdout \o init_except(e).printed
    /\ globals' = NoGlobals

\* the except clause of init takes over
init_fails(e) ==
    /\ init_pc' = init_except(e).pc
    /\ init_stdout' = init_stdout \o init_except(e).printed
    /\ UNCHANGED globals

\* the service starts: init is called, once
init_call ==
    /\ init_pc = "not_called"
    /\ init_pc' = "l432"
    /\ UNCHANGED <<globals, init_stdout>>
    /\ UNCHANGED <<deployment, calls, notebook_vars>>

\* wordsList.npy is downloaded; dictonary = np.load(...)
init_l432 ==
    /\ init_pc = "l432"
    /\ \E ok \in BOOLEAN :
          IF ok
          THEN /\ globals' = [globals EXCEPT !.dictonary =
                                 [kind |-> "ndarray", words |-> deployment.wordsList]]
               /\ init_pc' = "l433"
               /\ UNCHANGED init_stdout
          ELSE init_fails("URLError")
    /\ UNCHANGED <<deployment, calls, notebook_vars>>

\* dictonary = dictonary.tolist()
init_l433 ==
    /\ init_pc = "l433"
    /\ globals' = [globals EXCEPT !.dictonary.kind = "list of bytes"]
    /\ init_pc' = "l434"
    /\ UNCHANGED init_stdout
    /\ UNCHANGED <<deployment, calls, notebook_vars>>

\* dictonary = [word.decode('UTF-8') for word in dictonary]
init_l434 ==
    /\ init_pc = "l434"
    /\ \E ok \in BOOLEAN :
          IF ok
          THEN /\ globals' = [globals EXCEPT !.dictonary =
                                 [kind |-> "list of str",
                                  words |-> [k \in 1..Len(@.words) |->
                                               [@.words[k] EXCEPT !.word = decode(@)]]]]
               /\ init_pc' = "l440"
               /\ init_stdout' = Append(init_stdout, "Loaded the dictonary!")
          ELSE init_fails("UnicodeDecodeError")
    /\ UNCHANGED <<deployment, calls, notebook_vars>>

\* contractions.xlsx is read; contractions = dict(zip(...))
init_l440 ==
    /\ init_pc = "l440"
    /\ \E ok \in BOOLEAN :
          IF ok
          THEN /\ globals' = [globals EXCEPT !.contractions =
                                 [kind |-> "dict", map |-> dict_zip(deployment.contractions_df)]]
               /\ init_pc' = "l448"
               /\ init_stdout' = Append(init_stdout, "Loaded contractions!")
          ELSE init_fails("URLError")
    /\ UNCHANGED <<deployment, calls, notebook_vars>>

\* the path of the model is asked for;
\* onnx_session = onnxruntime.InferenceSession(onnx_model_path); init returns
init_l448 ==
    /\ init_pc = "l448"
    /\ \E ok \in BOOLEAN :
          IF ok
          THEN /\ globals' = [globals EXCEPT !.onnx_session =
                                 [kind |-> "InferenceSession",
                                  model |-> deployment.claim_classifier_onnx]]
               /\ init_pc' = "returned"
               /\ init_stdout' = Append(init_stdout, "Onnx Inference Session Created!")
          ELSE init_fails("WebserviceException")
    /\ UNCHANGED <<deployment, calls, notebook_vars>>

----------------------------------------------------------------------------
(* scoring_service.py: run *)

\* variant: except ValueError in the place of except Exception
run_except_value_error(e) ==
    IF e \in {"ValueError", "ValueError item", "JSONDecodeError"}
    THEN [pc |-> "returned", result |-> StrResult(str_of_exception(e)),
          printed |-> <<str_of_exception(e)>>]
    ELSE [pc |-> "raised", result |-> NoResult, printed |-> <<>>]

\* run, lines 503-506: the exception is printed and its text returned
run_except(e) ==
    [pc |-> "returned", result |-> StrResult(str_of_exception(e)),
     printed |-> <<str_of_exception(e)>>]

\* run(raw_data) with the globals g, from its call to its return with no
\* other step in between
run(raw_data, g) ==
    LET parsed == json_loads(raw_data)
        input_data_raw == np_array(parsed.value)
        input_data_indices ==
            run_convert_to_indices(input_data_raw, g.dictonary, g.contractions.map)
        input_data_padded == pad_sequences(input_data_indices.value, maxSeqLength)
        input_data == np_reshape(astype_float32(input_data_padded), <<1, maxSeqLength>>)
        outputs == session_run(g.onnx_session.model, input_data.value)
        result == item(argmax_axis1(outputs.value[1]))
    IN  IF parsed.exc # "none" THEN run_except(parsed.exc).result
        ELSE IF g.dictonary.kind = "unbound" THEN run_except("NameError dictonary").result
        ELSE IF g.contractions.kind = "unbound"
        THEN run_except("NameError contractions").result
        ELSE IF input_data_indices.exc # "none"
        THEN run_except(input_data_indices.exc).result
        ELSE IF input_data.exc # "none" THEN run_except(input_data.exc).result
        ELSE IF g.onnx_session.kind = "unbound"
        THEN run_except("NameError onnx_session").result
        ELSE IF outputs.exc # "none" THEN run_except(outputs.exc).result
        ELSE IF result.exc # "none" THEN run_except(result.exc).result
        ELSE IntResult(result.value)

\* lines 493-496 with the words list dict and the contraction map c_map:
\* convert_to_indices is called, its result is padded and reshaped to one row
run_input_data(input_data_raw, dict, c_map) ==
    LET input_data_indices == run_convert_to_indices(input_data_raw, dict, c_map)
        input_data_padded == pad_sequences(input_data_indices.value, maxSeqLength)
    IN  IF input_data_indices.exc # "none" THEN Raise(input_data_indices.exc)
        ELSE np_reshape(astype_float32(input_data_padded), <<1, maxSeqLength>>)

\* the values of input_data_raw, of dictonary and of the map of contractions
\* that a call of run can find
InputArrays ==
    {np_array(json_loads(raw_data).value) :
        raw_data \in {p \in Payloads : json_loads(p).exc = "none"}}

Dictonaries ==
    UNION {{[kind |-> "ndarray", words |-> d.wordsList],
            [kind |-> "list of bytes", words |-> d.wordsList],
            [kind |-> "list of str",
             words |-> [k \in 1..Len(d.wordsList) |->
                          [d.wordsList[k] EXCEPT !.word = decode(@)]]]} : d \in Deployments}

ContractionDicts == {dict_zip(d.contractions_df) : d \in Deployments}

\* run_input_data for each of them, computed once
input_data_table ==
    [input_data_raw \in InputArrays |->
        [dict \in Dictonaries |->
            [c_map \in ContractionDicts |-> run_input_data(input_data_raw, dict, c_map)]]]

\* the call after its except clause has taken over
excepted(call, e) ==
    [call EXCEPT !.pc = run_except(e).pc,
                 !.result = run_except(e).result,
                 !.stdout = @ \o run_except(e).printed]

\* run(raw_data) is called with one of the requests;
\* input_data_raw = np.array(json.loads(raw_data))
run_call_with(c, requests) ==
    /\ calls[c].pc = "idle"
    /\ \E raw_data \in requests :
          LET call == [NoCall EXCEPT !.raw_data = raw_data,
                                     !.called_ready = AllLoaded(globals),
                                     !.stdout = <<"Received input: ">>]
              parsed == json_loads(raw_data)
          IN  calls' = [calls EXCEPT ![c] =
                  IF parsed.exc # "none" THEN excepted(call, parsed.exc)
                  ELSE [call EXCEPT !.pc = "l493",
                                    !.input_data_raw = np_array(parsed.value)]]
    /\ UNCHANGED <<deployment, globals, init_pc, init_stdout, notebook_vars>>

run_call(c) == run_call_with(c, Payloads)

\* variant: the call waits until init has assigned dictonary
run_load_dictonary_waiting(c) ==
    /\ calls[c].pc = "l493"
    /\ globals.dictonary.kind # "unbound"
    /\ calls' = [calls EXCEPT ![c] =
           [@ EXCEPT !.pc = "l493 contractions", !.dictonary = globals.dictonary]]
    /\ UNCHANGED <<deployment, globals, init_pc, init_stdout, notebook_vars>>

\* line 493, the argument dictonary: the global is read
run_load_dictonary(c) ==
    /\ calls[c].pc = "l493"
    /\ calls' = [calls EXCEPT ![c] =
           IF globals.dictonary.kind = "unbound"
           THEN excepted(@, "NameError dictonary")
           ELSE [@ EXCEPT !.pc = "l493 contractions", !.dictonary = globals.dictonary]]
    /\ UNCHANGED <<deployment, globals, init_pc, init_stdout, notebook_vars>>

\* lines 493-496: the global contractions is read, convert_to_indices is
\* called, its result is padded and reshaped to one row
run_encode(c) ==
    /\ calls[c].pc = "l493 contractions"
    /\ LET call == calls[c] IN
       calls' = [calls EXCEPT ![c] =
           IF globals.contractions.kind = "unbound"
           THEN excepted(call, "NameError contractions")
           ELSE LET input_data ==
                        input_data_table[call.input_data_raw][call.dictonary]
                                        [globals.contractions.map]
                IN  IF input_data.exc # "none"
                    THEN excepted(call, input_data.exc)
                    ELSE [call EXCEPT !.pc = "l500", !.input_data = input_data.value]]
    /\ UNCHANGED <<deployment, globals, init_pc, init_stdout, notebook_vars>>

\* lines 500-502 for the row input_data: the global onnx_session is read and
\* run, and the position of the highest score of its one row is returned
run_infer_row(c, input_data) ==
    /\ calls[c].pc = "l500"
    /\ LET call == calls[c]
           outputs == session_run(globals.onnx_session.model, input_data)
           result == item(argmax_axis1(outputs.value[1]))
       IN  calls' = [calls EXCEPT ![c] =
               IF globals.onnx_session.kind = "unbound"
               THEN excepted(call, "NameError onnx_session")
               ELSE IF outputs.exc # "none"
               THEN excepted(call, outputs.exc)
               ELSE IF result.exc # "none"
               THEN excepted([call EXCEPT !.scores = outputs.value[1]], result.exc)
               ELSE [call EXCEPT !.pc = "returned",
                                 !.scores = outputs.value[1],
                                 !.result = IntResult(result.value)]]
    /\ UNCHANGED <<deployment, globals, init_pc, init_stdout, notebook_vars>>

\* variant: input_data is a global of the module, the row of any of the calls
run_infer_global_row(c) ==
    \E d \in Callers : calls[d].input_data # <<>> /\ run_infer_row(c, calls[d].input_data)

\* variant: a call that finds no session calls init again
run_infer_init_again(c) ==
    IF calls[c].pc = "l500" /\ globals.onnx_session.kind = "unbound" /\ init_pc = "returned"
    THEN /\ init_pc' = "l432"
         /\ calls' = [calls EXCEPT ![c] = excepted(@, "NameError onnx_session")]
         /\ UNCHANGED <<deployment, globals, init_stdout, notebook_vars>>
    ELSE run_infer_row(c, calls[c].input_data)

\* lines 500-502: input_data is the local of the call
run_infer(c) == run_infer_row(c, calls[c].input_data)

\* the caller has the result; it may call again
run_return(c) ==
    /\ calls[c].pc = "returned"
    /\ calls' = [calls EXCEPT ![c] = NoCall]
    /\ UNCHANGED <<deployment, globals, init_pc, init_stdout, notebook_vars>>

ServiceInit ==
    /\ deployment \in Deployments
    /\ globals = NoGlobals
    /\ init_pc = "not_called"
    /\ init_stdout = <<>>
    /\ calls = [c \in Callers |-> NoCall]
    /\ dictonary = <<>>
    /\ contractions = <<>>
    /\ test_claim = <<>>
    /\ test_claim_indices = <<>>
    /\ test_data = <<>>
    /\ pc = "service"

ServiceNext ==
    \/ init_call
    \/ init_l432
    \/ init_l433
    \/ init_l434
    \/ init_l440
    \/ init_l448
    \/ \E c \in Callers :
          \/ run_call(c)
          \/ run_load_dictonary(c)
          \/ run_encode(c)
          \/ run_infer(c)
          \/ run_return(c)

ServiceSpec == ServiceInit /\ [][ServiceNext]_vars

\* every call runs on: init, once called, and each call of run take their
\* next step in the end (each external call returns or raises)
ServiceFairness ==
    /\ WF_vars(init_l432 \/ init_l433 \/ init_l434 \/ init_l440 \/ init_l448)
    /\ \A c \in Callers :
          WF_vars(run_load_dictonary(c) \/ run_encode(c) \/ run_infer(c))

\* the requests of the calls that are followed to their end: one claim text,
\* two claim texts, a number for a claim text, and a list that is not closed
FairPayloads ==
    {json_dumps(Batch(<<BatchOrder[2]>>)),
     json_dumps(Batch(SubSeq(BatchOrder, 1, 2))),
     json_dumps(JList(<<JInt(1)>>)),
     <<Open, Scalar(JStr(<<"a">>))>>}

ServiceFairNext ==
    \/ init_call
    \/ init_l432
    \/ init_l433
    \/ init_l434
    \/ init_l440
    \/ init_l448
    \/ \E c \in Callers :
          \/ run_call_with(c, FairPayloads)
          \/ run_load_dictonary(c)
          \/ run_encode(c)
          \/ run_infer(c)
          \/ run_return(c)

ServiceFairSpec == ServiceInit /\ [][ServiceFairNext]_vars /\ ServiceFairness

----------------------------------------------------------------------------
(* What the properties are stated with *)

\* the index sequences have been computed
Encoded == pc \in {"converted", "padded"}

\* a non-empty string without whitespace: what split() gives back as one token
IsToken(t) == t # <<>> /\ \A i \in 1..Len(t) : t[i] \notin Whitespace

\* the claim text is one token and nothing else
SingleToken == Len(test_claim) = 1 /\ IsToken(test_claim[1])

WordsOf(dict) == {dict[k].word : k \in 1..Len(dict)}

RECURSIVE SkipSum(_, _)
SkipSum(dict, k) == IF k = 0 THEN 0 ELSE dict[k].skip + SkipSum(dict, k - 1)

\* the zero-based position of the word w in the words list
PositionOf(dict, w) ==
    LET k == CHOOSE k \in 1..Len(dict) : dict[k].word = w IN (k - 1) + SkipSum(dict, k)

\* the index a word stands for: its position, or 399999 when it is not in the list
IndexFor(dict, w) == IF w \in WordsOf(dict) THEN PositionOf(dict, w) ELSE 399999

\* the words looked up for one token, in order: the words of its expansion for a
\* contraction, else its cleaned form unless that is empty
LookedUpFor(token, c_map) ==
    LET word == lower(token) IN
    IF word \in DOMAIN c_map
    THEN LET ws == split(c_map[word]) IN
         [q \in 1..Len(ws) |-> [word |-> ws[q], contraction |-> TRUE]]
    ELSE LET clean == remove_special_characters(word) IN
         IF clean = <<>> THEN <<>> ELSE <<[word |-> clean, contraction |-> FALSE]>>

RECURSIVE Concat(_, _, _)
\* ss[lo] \o ... \o ss[hi]
Concat(ss, lo, hi) ==
    IF lo > hi THEN <<>>
    ELSE IF lo = hi THEN ss[lo]
    ELSE LET mid == (lo + hi) \div 2 IN Concat(ss, lo, mid) \o Concat(ss, mid + 1, hi)

\* the words looked up for a claim text, token after token
LookedUp(text, c_map) ==
    LET tokens == split(text) IN
    Concat([j \in 1..Len(tokens) |-> LookedUpFor(tokens[j], c_map)], 1, Len(tokens))

\* the index sequence of the claim text made of the one token t
AloneIndices(t) == convert_to_indices(<<t>>, dictonary, contractions).value[1]

----------------------------------------------------------------------------
(* C1: every Encoded Row has exactly 125 entries, whatever the length of   *)
(* its Index Sequence (0, fewer than 125, 125, more than 125), and there   *)
(* is one row for each claim text.                                         *)
C1_RowLength ==
    pc = "padded" =>
        /\ Len(test_data) = Len(test_claim)
        /\ \A i \in 1..Len(test_data) : Len(test_data[i]) = 125

C1_Witness ==
    /\ pc = "padded"
    /\ Len(test_claim_indices[1]) > 125
    /\ Len(test_data[1]) = 125

(* C2: an Index Sequence of length n < 125 becomes 125 - n zeros followed  *)
(* by its n values in their order.                                         *)
C2_PrePadding ==
    pc = "padded" =>
        \A i \in 1..Len(test_claim_indices) :
            LET s == test_claim_indices[i]
                n == Len(s)
            IN  n < 125 =>
                    test_data[i] = [k \in 1..125 |-> IF k <= 125 - n THEN 0 ELSE s[k - (125 - n)]]

C2_Witness ==
    /\ pc = "padded"
    /\ Len(test_claim_indices[1]) = 124
    /\ test_claim_indices[1][1] # test_claim_indices[1][2]
    /\ test_data[1][1] = 0
    /\ test_data[1][2] = test_claim_indices[1][1]

(* C3: an Index Sequence of length n >= 125 becomes its first 125 values,  *)
(* unchanged and in order.                                                 *)
C3_PostTruncation ==
    pc = "padded" =>
        \A i \in 1..Len(test_claim_indices) :
            LET s == test_claim_indices[i] IN
            Len(s) >= 125 => test_data[i] = [k \in 1..125 |-> s[k]]

C3_Witness ==
    /\ pc = "padded"
    /\ Len(test_claim_indices[1]) > 125
    /\ test_claim_indices[1][1] # test_claim_indices[1][2]
    /\ test_data[1][125] = test_claim_indices[1][125]

(* C4: tokens are processed left to right: the Index Sequence of a claim   *)
(* text is the index sequences of its tokens, each encoded alone, one      *)
(* after the other in token order; a token that occurs k times             *)
(* contributes k times.                                                    *)
C4_TokenOrder ==
    Encoded =>
        \A i \in 1..Len(test_claim) :
            LET tokens == split(test_claim[i]) IN
            test_claim_indices[i] =
                Concat([j \in 1..Len(tokens) |-> AloneIndices(tokens[j])], 1, Len(tokens))

C4_Witness ==
    /\ Encoded
    /\ LET tokens == split(test_claim[1]) IN
       /\ Len(tokens) = 3
       /\ tokens[1] = tokens[3]
       /\ tokens[1] # tokens[2]
       /\ Len(test_claim_indices[1]) = 3
       /\ test_claim_indices[1][1] = test_claim_indices[1][3]
       /\ test_claim_indices[1][1] # test_claim_indices[1][2]

(* C5: a word that is not in the Vocabulary never raises out of            *)
(* convert_to_indices: the call returns, with one index for each word      *)
(* looked up, in order, and that index is 399999 for each word that is     *)
(* not in the Vocabulary (a cleaned token or a word of an expansion).      *)
C5_UnknownWord ==
    /\ pc \in {"loaded", "converted", "padded"}
    /\ Encoded =>
        \A i \in 1..Len(test_claim) :
            LET words == LookedUp(test_claim[i], contractions) IN
            /\ Len(test_claim_indices[i]) = Len(words)
            /\ \A q \in 1..Len(words) :
                words[q].word \notin WordsOf(dictonary) => test_claim_indices[i][q] = 399999

C5_Witness ==
    /\ Encoded
    /\ LET words == LookedUp(test_claim[1], contractions) IN
       /\ Len(words) = 3
       /\ words[1].contraction /\ words[1].word \notin WordsOf(dictonary)
       /\ ~words[2].contraction /\ words[2].word \notin WordsOf(dictonary)
       /\ words[3].word \in WordsOf(dictonary)
       /\ test_claim_indices[1][1] = 399999
       /\ test_claim_indices[1][2] = 399999
       /\ test_claim_indices[1][3] # 399999

\* the token is written in the Vocabulary as it stands: lowercase and without
\* punctuation
VerbatimToken(t) ==
    /\ IsToken(t)
    /\ lower(t) = t
    /\ \A i \in 1..Len(t) : t[i] \notin Punctuation
    /\ t \in WordsOf(dictonary)

(* C6 as stated: for every Vocabulary and every Contraction Map, a token   *)
(* present verbatim in the Vocabulary, encoded alone, gives [p], p its     *)
(* zero-based position in the Vocabulary.                                  *)
C6_VerbatimToken_AsStated ==
    (Encoded /\ SingleToken /\ VerbatimToken(test_claim[1])) =>
        test_claim_indices = << <<PositionOf(dictonary, test_claim[1])>> >>

(* C6, amended: a token present verbatim in the Vocabulary that is not a   *)
(* key of the Contraction Map, encoded alone, gives [p], p its zero-based  *)
(* position in the Vocabulary; a token that is a key gives the indices of  *)
(* the words of its expansion instead.                                     *)
C6_VerbatimToken ==
    (Encoded /\ SingleToken /\ VerbatimToken(test_claim[1])) =>
        IF test_claim[1] \in DOMAIN contractions
        THEN LET ws == split(contractions[test_claim[1]]) IN
             test_claim_indices = << [q \in 1..Len(ws) |-> IndexFor(dictonary, ws[q])] >>
        ELSE test_claim_indices = << <<PositionOf(dictonary, test_claim[1])>> >>

C6_Witness ==
    /\ Encoded /\ SingleToken /\ VerbatimToken(test_claim[1])
    /\ test_claim[1] \notin DOMAIN contractions
    /\ contractions # <<>>
    /\ PositionOf(dictonary, test_claim[1]) = 399999
    /\ test_claim_indices = << <<399999>> >>

\* the token is in the Vocabulary under no transformation: not as written, not
\* lowercased, not stripped of punctuation, and no word of its expansion is
TokenNowhere(t) ==
    LET known == WordsOf(dictonary)
        word == lower(t)
    IN  /\ IsToken(t)
        /\ {t, word, remove_special_characters(t), remove_special_characters(word)}
              \cap known = {}
        /\ word \in DOMAIN contractions =>
              LET ws == split(contractions[word]) IN
              /\ contractions[word] \notin known
              /\ \A q \in 1..Len(ws) :
                    {ws[q], lower(ws[q]), remove_special_characters(lower(ws[q]))}
                        \cap known = {}

(* C7 as stated: a single token that is in the Vocabulary under no         *)
(* transformation, encoded alone, gives exactly [399999].                  *)
C7_UnknownToken_AsStated ==
    (Encoded /\ SingleToken /\ TokenNowhere(test_claim[1])) =>
        test_claim_indices = << <<399999>> >>

(* C7, amended: a single token that is in the Vocabulary under no          *)
(* transformation, encoded alone, gives one 399999 for each word looked    *)
(* up: exactly [399999] when it is not a Contraction Map key and is not    *)
(* empty once its punctuation is stripped, [] when it is not a key and is  *)
(* made only of punctuation, and m entries 399999 when it is a key whose   *)
(* expansion has m words.                                                  *)
C7_UnknownToken ==
    (Encoded /\ SingleToken /\ TokenNowhere(test_claim[1])) =>
        LET word == lower(test_claim[1]) IN
        IF word \in DOMAIN contractions
        THEN test_claim_indices =
                << [q \in 1..Len(split(contractions[word])) |-> 399999] >>
        ELSE IF remove_special_characters(word) = <<>>
             THEN test_claim_indices = << <<>> >>
             ELSE test_claim_indices = << <<399999>> >>

C7_Witness ==
    /\ Encoded /\ SingleToken /\ TokenNowhere(test_claim[1])
    /\ lower(test_claim[1]) \notin DOMAIN contractions
    /\ lower(test_claim[1]) # test_claim[1]
    /\ remove_special_characters(test_claim[1]) # test_claim[1]
    /\ dictonary # <<>>
    /\ test_claim_indices = << <<399999>> >>

\* a token made only of ASCII punctuation that is not a Contraction Map key
PunctuationOnly(t) ==
    /\ IsToken(t)
    /\ \A i \in 1..Len(t) : t[i] \in Punctuation
    /\ t \notin DOMAIN contractions

(* C8: a token that is not a Contraction Map key and is made only of       *)
(* ASCII punctuation contributes nothing: alone it encodes to the empty    *)
(* sequence, and a claim text encodes to what it encodes to with such      *)
(* tokens taken out (no sentinel, the other tokens' indices unchanged).    *)
C8_PunctuationOnly ==
    Encoded =>
        \A i \in 1..Len(test_claim) :
            LET tokens == split(test_claim[i])
                others == SelectSeq(tokens, LAMBDA t : ~PunctuationOnly(t))
            IN  /\ test_claim_indices[i] = AloneIndices(join(others))
                /\ others = <<>> => test_claim_indices[i] = <<>>

C8_Witness ==
    /\ Encoded
    /\ LET tokens == split(test_claim[1]) IN
       /\ Len(tokens) = 3
       /\ ~PunctuationOnly(tokens[1])
       /\ PunctuationOnly(tokens[2])
       /\ ~PunctuationOnly(tokens[3])
       /\ Len(test_claim_indices[1]) = 2
       /\ test_claim_indices[1][1] # test_claim_indices[1][2]
       /\ 399999 \notin {test_claim_indices[1][1], test_claim_indices[1][2]}

(* C9: a token is lowercased before the Contraction Map lookup: a token,   *)
(* in any letter case, whose lowercased form is a key with a one-word      *)
(* expansion that is in the Vocabulary at index K, encoded alone, gives    *)
(* [K].                                                                    *)
C9_LowercasedKey ==
    (Encoded /\ SingleToken /\ lower(test_claim[1]) \in DOMAIN contractions) =>
        LET ws == split(contractions[lower(test_claim[1])]) IN
        (Len(ws) = 1 /\ ws[1] \in WordsOf(dictonary)) =>
            test_claim_indices = << <<PositionOf(dictonary, ws[1])>> >>

C9_Witness ==
    /\ Encoded /\ SingleToken
    /\ lower(test_claim[1]) # test_claim[1]
    /\ lower(test_claim[1]) \in DOMAIN contractions
    /\ LET ws == split(contractions[lower(test_claim[1])]) IN
       /\ Len(ws) = 1
       /\ ws[1] \in WordsOf(dictonary)
       /\ PositionOf(dictonary, ws[1]) > 0
       /\ test_claim_indices = << <<PositionOf(dictonary, ws[1])>> >>

(* C10: a token whose lowercased form is a Contraction Map key with        *)
(* expansion words w1..wm contributes exactly m indices, in phrase order,  *)
(* the i-th the Vocabulary position of wi if wi is in the Vocabulary as    *)
(* written and 399999 otherwise: wi is not stripped of punctuation, not    *)
(* lowercased and not expanded again, even when it is itself a key.        *)
C10_ExpansionWords ==
    Encoded =>
        \A i \in 1..Len(test_claim) :
            LET words == LookedUp(test_claim[i], contractions) IN
            /\ Len(test_claim_indices[i]) = Len(words)
            /\ \A q \in 1..Len(words) :
                words[q].contraction =>
                    test_claim_indices[i][q] = IndexFor(dictonary, words[q].word)

C10_Witness ==
    /\ Encoded /\ SingleToken
    /\ lower(test_claim[1]) \in DOMAIN contractions
    /\ LET ws == split(contractions[lower(test_claim[1])]) IN
       /\ Len(ws) = 2
       /\ ws[1] \in DOMAIN contractions
       /\ ws[1] \in WordsOf(dictonary)
       /\ ws[2] \notin WordsOf(dictonary)
       /\ test_claim_indices = << <<PositionOf(dictonary, ws[1]), 399999>> >>

\* the tokens of a text are no contractions and are not empty once cleaned
PlainTokens(text) ==
    \A j \in 1..Len(split(text)) :
        LET word == lower(split(text)[j]) IN
        /\ word \notin DOMAIN contractions
        /\ remove_special_characters(word) # <<>>

(* C11: the claim "I crashed my car into a pole." becomes, with            *)
(* maxSeqLength 125, a row of 125 entries: 118 zeros and then the 7        *)
(* indices of i, crashed, my, car, into, a, pole in that order (the        *)
(* period of "pole." is stripped); and a text of k <= 125 tokens that are  *)
(* no contractions and are not empty once cleaned becomes 125 - k zeros    *)
(* and then one index for each token, in order.                            *)
C11_CrashClaimRow ==
    pc = "padded" =>
        /\ test_claim = <<CrashClaim>> =>
              test_data[1] =
                  Fill(118, 0) \o
                  <<IndexFor(dictonary, <<"i">>),
                    IndexFor(dictonary, <<"c", "r", "a", "s", "h", "e", "d">>),
                    IndexFor(dictonary, <<"m", "y">>),
                    IndexFor(dictonary, <<"c", "a", "r">>),
                    IndexFor(dictonary, <<"i", "n", "t", "o">>),
                    IndexFor(dictonary, <<"a">>),
                    IndexFor(dictonary, <<"p", "o", "l", "e">>)>>
        /\ \A i \in 1..Len(test_claim) :
              LET tokens == split(test_claim[i])
                  k == Len(tokens)
              IN  (k <= 125 /\ PlainTokens(test_claim[i])) =>
                      test_data[i] =
                          [q \in 1..125 |->
                              IF q <= 125 - k THEN 0
                              ELSE IndexFor(dictonary,
                                     remove_special_characters(lower(tokens[q - (125 - k)])))]

C11_Witness ==
    /\ pc = "padded"
    /\ test_claim = <<CrashClaim>>
    /\ <<"c", "r", "a", "s", "h", "e", "d">> \in WordsOf(dictonary)
    /\ <<"p", "o", "l", "e", ".">> \in WordsOf(dictonary)
    /\ test_data[1][118] = 0
    /\ test_data[1][119] = PositionOf(dictonary, <<"i">>)
    /\ test_data[1][125] = PositionOf(dictonary, <<"p", "o", "l", "e">>)

----------------------------------------------------------------------------
(* What the properties of the scoring service are stated with *)

\* the request is a list of claim texts
TextBatch(raw_data) ==
    LET parsed == json_loads(raw_data) IN
    /\ parsed.exc = "none"
    /\ parsed.value.type = "list"
    /\ \A k \in 1..Len(parsed.value.items) : parsed.value.items[k].type = "str"

\* the number of its claim texts
BatchSize(raw_data) == Len(json_loads(raw_data).value.items)

\* the request with the first claim text and no other
FirstOnly(raw_data) == json_dumps(JList(<<json_loads(raw_data).value.items[1]>>))

\* the call of c has returned and was made with all of the globals loaded
ReturnedReady(c) == calls[c].pc = "returned" /\ calls[c].called_ready

C13_NeverRaises ==
    \A c \in Callers :
        /\ calls[c].pc # "raised"
        /\ calls[c].pc = "returned" =>
              \/ calls[c].result.type = "int"
              \/ /\ calls[c].result.type = "str"
                 /\ calls[c].result.error # ""
                 /\ calls[c].stdout = <<"Received input: ", calls[c].result.error>>

C13_Witness ==
    \E c, d \in Callers :
        /\ calls[c].pc = "returned"
        /\ calls[c].result = StrResult(str_of_exception("AttributeError"))
        /\ calls[d].pc = "returned"
        /\ calls[d].result = StrResult(str_of_exception("RuntimeException"))

\* the request is one claim text in a list
OneText(raw_data) == TextBatch(raw_data) /\ BatchSize(raw_data) = 1

(* C14: a call that has returned has returned an int, 0 or 1, or a str,    *)
(* and nothing else; a request of one claim text made in the Ready state   *)
(* with a session that works returns an int.                               *)
C14_LabelOrText ==
    \A c \in Callers :
        calls[c].pc = "returned" =>
            /\ \/ calls[c].result.type = "int" /\ calls[c].result.label \in {0, 1}
               \/ calls[c].result.type = "str"
            /\ ( /\ calls[c].called_ready
                 /\ OneText(calls[c].raw_data)
                 /\ ~globals.onnx_session.model.fails ) =>
                   calls[c].result.type = "int"

C14_Witness ==
    \E c, d \in Callers :
        /\ ReturnedReady(c)
        /\ OneText(calls[c].raw_data)
        /\ calls[c].result = IntResult(1)
        /\ ReturnedReady(d)
        /\ OneText(calls[d].raw_data)
        /\ calls[d].result = IntResult(0)

(* C15: the label is the position of the higher of the two class scores,   *)
(* the first one for equal scores: it is 1 exactly when score[1] >         *)
(* score[0], and 0 when the two scores are equal.                          *)
C15_ArgmaxLabel ==
    \A c \in Callers :
        (calls[c].pc = "returned" /\ calls[c].result.type = "int") =>
            /\ Len(calls[c].scores) = 1
            /\ Len(calls[c].scores[1]) = 2
            /\ calls[c].result.label = 1 <=> calls[c].scores[1][2] > calls[c].scores[1][1]
            /\ calls[c].scores[1][2] = calls[c].scores[1][1] => calls[c].result.label = 0

C15_Witness ==
    \E c, d \in Callers :
        /\ calls[c].pc = "returned"
        /\ calls[c].result = IntResult(0)
        /\ calls[c].scores[1][1] = calls[c].scores[1][2]
        /\ calls[d].pc = "returned"
        /\ calls[d].result = IntResult(1)
        /\ calls[d].scores[1][1] < calls[d].scores[1][2]

\* where the service is: before init, init at work, all of the globals
\* loaded, or init over without that
ServiceState(g, at) ==
    IF AllLoaded(g) THEN "Ready"
    ELSE IF at = "not_called" THEN "Uninitialized"
    ELSE IF at = "returned" THEN "Failed"
    ELSE "Initializing"

\* init is over and one of the globals is not loaded
Failed == ServiceState(globals, init_pc) = "Failed"

(* C16: when init fails at one of its three steps it prints the error and  *)
(* returns, it does not raise; from then on the service stays as it is,    *)
(* and every call of run, whatever its request, returns the text of an     *)
(* error and no label.                                                     *)
C16_FailedInit ==
    /\ [](init_pc # "raised")
    /\ [][Failed =>
            /\ Failed'
            /\ \A c \in Callers :
                  calls'[c].pc = "returned" => calls'[c].result.type = "str"]_vars

C16_Witness ==
    /\ Failed
    /\ Len(init_stdout) = 3
    /\ init_stdout[3] = str_of_exception("WebserviceException")
    /\ \E c \in Callers :
          /\ calls[c].pc = "returned"
          /\ OneText(calls[c].raw_data)
          /\ calls[c].result = StrResult(str_of_exception("NameError onnx_session"))

(* C17: once init is over, in Ready as in Failed, no call of run changes   *)
(* the state of the service: dictonary, contractions and onnx_session stay *)
(* as they are, and init is not run again.                                 *)
C17_Terminal ==
    [][ /\ init_pc = "returned" => (init_pc' = "returned" /\ globals' = globals)
        /\ calls' # calls => (init_pc' = init_pc /\ globals' = globals) ]_vars

C17_Witness ==
    /\ init_pc = "returned"
    /\ \E c, d \in Callers :
          /\ calls[c].pc = "returned"
          /\ calls[c].result.type = "str"
          /\ calls[d].pc = "returned"
          /\ calls[d].result.type = "int"

(* C18 as stated: a call of run that was made before init, or while init   *)
(* was at work, returns a label only if the service was Ready for it: no   *)
(* label comes from a call made before the three globals were loaded, or   *)
(* from a words list that init had not yet decoded.                        *)
C18_GatedOnReady ==
    \A c \in Callers :
        (calls[c].pc = "returned" /\ calls[c].result.type = "int") =>
            /\ calls[c].called_ready
            /\ calls[c].dictonary.kind = "list of str"

(* C19: in the Ready state the result of a call depends on its request and *)
(* on the globals only: whatever the other calls do in between, before or  *)
(* after it, failing or not, it is the result the request gets when it is  *)
(* run alone.                                                              *)
C19_Independent ==
    \A c \in Callers :
        ReturnedReady(c) => calls[c].result = run(calls[c].raw_data, globals)

C19_Witness ==
    \E c, d \in Callers :
        /\ ReturnedReady(c)
        /\ calls[c].result.type = "int"
        /\ ReturnedReady(d)
        /\ calls[d].result.type = "str"
        /\ calls[d].called_ready
        /\ run(calls[c].raw_data, globals) # run(calls[d].raw_data, globals)

(* C20: every value of every Index Sequence that convert_to_indices gives  *)
(* back is a position of the Vocabulary, from 0 to its length - 1, or      *)
(* 399999.                                                                 *)
C20_IndexRange ==
    Encoded =>
        \A i \in 1..Len(test_claim_indices) :
            \A q \in 1..Len(test_claim_indices[i]) :
                \/ test_claim_indices[i][q] = 399999
                \/ /\ 0 <= test_claim_indices[i][q]
                   /\ test_claim_indices[i][q] <= list_len(dictonary) - 1

C20_Witness ==
    /\ Encoded
    /\ list_len(dictonary) = 2
    /\ \E q, r \in 1..Len(test_claim_indices[1]) :
          /\ test_claim_indices[1][q] = list_len(dictonary) - 1
          /\ test_claim_indices[1][r] = 399999

(* C21 as stated: 399999 stands for the unknown words whatever the size of *)
(* the Vocabulary: an entry of an Index Sequence is 399999 exactly when    *)
(* the word it stands for was not found in the Vocabulary.                 *)
C21_SentinelIffUnknown ==
    Encoded =>
        \A i \in 1..Len(test_claim_indices) :
            LET words == LookedUp(test_claim[i], contractions) IN
            \A q \in 1..Len(test_claim_indices[i]) :
                test_claim_indices[i][q] = 399999 <=> words[q].word \notin WordsOf(dictonary)

(* C22: a request that is no JSON list of str (a text that is no JSON, a   *)
(* scalar, an object, a list with an element that is no str) made in the   *)
(* Ready state returns the text of an error and no label, and the service  *)
(* stays Ready.                                                            *)
C22_MalformedPayload ==
    \A c \in Callers :
        (ReturnedReady(c) /\ ~TextBatch(calls[c].raw_data)) =>
            /\ calls[c].result.type = "str"
            /\ calls[c].result.error # ""
            /\ calls[c].scores = <<>>
            /\ AllLoaded(globals)

C22_Witness ==
    \E c, d \in Callers :
        /\ ReturnedReady(c)
        /\ calls[c].raw_data = json_dumps(JList(<<JInt(1)>>))
        /\ calls[c].result = StrResult(str_of_exception("AttributeError"))
        /\ ReturnedReady(d)
        /\ json_loads(calls[d].raw_data).exc = "JSONDecodeError"
        /\ calls[d].result = StrResult(str_of_exception("JSONDecodeError"))
        /\ AllLoaded(globals)

----------------------------------------------------------------------------
\* convert_to_indices has just returned
Converted == pc = "converted"

\* what lines 465 and 476 make of a token: lowercased, punctuation taken out
Normalized(t) == remove_special_characters(lower(t))

\* a token of lowercase letters and digits only
CleanToken(t) ==
    /\ t # <<>>
    /\ \A i \in 1..Len(t) :
          \/ \E k \in 1..Len(LowerCase) : LowerCase[k] = t[i]
          \/ t[i] \in {"0", "1", "2", "3", "4", "5", "6", "7", "8", "9"}

(* C23: lowercasing and remove_special_characters give back unchanged a    *)
(* token that is already lowercase and alphanumeric, and applying them     *)
(* twice to any token gives what applying them once gives.                 *)
C23_Idempotent ==
    Converted =>
        \A i \in 1..Len(test_claim) :
            LET tokens == split(test_claim[i]) IN
            \A j \in 1..Len(tokens) :
                /\ CleanToken(tokens[j]) => Normalized(tokens[j]) = tokens[j]
                /\ Normalized(Normalized(tokens[j])) = Normalized(tokens[j])

C23_Witness ==
    /\ Encoded
    /\ LET tokens == split(test_claim[1]) IN
       /\ Len(tokens) = 2
       /\ CleanToken(tokens[1])
       /\ tokens[1] \in WordsOf(dictonary)
       /\ tokens[2] = <<"A", "'">>
       /\ Normalized(tokens[2]) = <<"a">>
       /\ lower(tokens[2]) \notin DOMAIN contractions
       /\ test_claim_indices[1] =
              <<IndexFor(dictonary, tokens[1]), IndexFor(dictonary, <<"a">>)>>

----------------------------------------------------------------------------
\* str.swapcase() on one ASCII letter
ascii_swapcase_char(c) ==
    IF \E k \in 1..Len(LowerCase) : LowerCase[k] = c
    THEN UpperCase[CHOOSE k \in 1..Len(LowerCase) : LowerCase[k] = c]
    ELSE lower_char(c)

\* str.swapcase() on one letter
swapcase_char(c) == IF c = DotlessI THEN "I" ELSE ascii_swapcase_char(c)

\* the sets of positions whose case is changed: all of them, and the odd ones
CasePositions(text) == {1..Len(text), {i \in 1..Len(text) : i % 2 = 1}}

\* the text with the case of the letters at the positions S changed
Recased(text, S, swap(_)) == [i \in 1..Len(text) |-> IF i \in S THEN swap(text[i]) ELSE text[i]]

\* C24 as stated: changing the case of any letters of a claim text leaves
\* its index sequence unchanged
C24_CaseInsensitive_AsStated ==
    Converted =>
        \A i \in 1..Len(test_claim) :
            \A S \in CasePositions(test_claim[i]) :
                AloneIndices(Recased(test_claim[i], S, swapcase_char)) = test_claim_indices[i]

(* C24: changing the case of any ASCII letters of a claim text leaves its  *)
(* index sequence unchanged, for every words list and contraction map.     *)
C24_CaseInsensitive ==
    Converted =>
        \A i \in 1..Len(test_claim) :
            \A S \in CasePositions(test_claim[i]) :
                AloneIndices(Recased(test_claim[i], S, ascii_swapcase_char)) = test_claim_indices[i]

C24_Witness ==
    /\ Encoded
    /\ test_claim = << <<"A", "'", " ", "b">> >>
    /\ <<"a", "'">> \in DOMAIN contractions
    /\ <<"b">> \in WordsOf(dictonary)
    /\ AloneIndices(<<"a", "'", " ", "B">>) = test_claim_indices[1]
    /\ Len(test_claim_indices[1]) >= 2
    /\ \E q \in 1..Len(test_claim_indices[1]) : test_claim_indices[1][q] # 399999

----------------------------------------------------------------------------
RECURSIVE word_to_index_from(_, _, _, _)
\* the map with the entries from k on added, a later entry replacing an
\* earlier one for the same word
word_to_index_from(dict, k, position, m) ==
    IF k > Len(dict) THEN m
    ELSE word_to_index_from(dict, k + 1, position + dict[k].skip + 1,
             [w \in DOMAIN m \cup {dict[k].word} |->
                 IF w = dict[k].word THEN position + dict[k].skip ELSE m[w]])

\* a map from word to position built in one pass over the words list
word_to_index(dict) == word_to_index_from(dict, 1, 0, <<>>)

\* the index sequence of a claim text with every word resolved through the map m
MapEncoded(text, c_map, m) ==
    LET words == LookedUp(text, c_map) IN
    [q \in 1..Len(words) |->
        IF words[q].word \in DOMAIN m THEN m[words[q].word] ELSE 399999]

DistinctWords(dict) == \A j, k \in 1..Len(dict) : dict[j].word = dict[k].word => j = k

(* C25: for a words list of distinct words, resolving every word through   *)
(* a word-to-position map built once from the list gives the index         *)
(* sequences that convert_to_indices gives with its sequential scan.       *)
C25_MapLookup ==
    (Converted /\ DistinctWords(dictonary)) =>
        LET m == word_to_index(dictonary) IN
        \A i \in 1..Len(test_claim) :
            test_claim_indices[i] = MapEncoded(test_claim[i], contractions, m)

C25_Witness ==
    /\ Encoded
    /\ DistinctWords(dictonary)
    /\ Len(dictonary) >= 2
    /\ Len(test_claim) = 1
    /\ LET m == word_to_index(dictonary)
           ixs == test_claim_indices[1]
       IN  /\ ixs = MapEncoded(test_claim[1], contractions, m)
           /\ Len(ixs) = 3
           /\ ixs[1] = 399999
           /\ ixs[2] = 0
           /\ ixs[3] \notin {0, 399999}

----------------------------------------------------------------------------
\* the token t lowercased is a contraction map key followed by punctuation
\* and is not itself a key
PunctuatedKey(t) ==
    LET word == lower(t) IN
    /\ word \notin DOMAIN contractions
    /\ \E n \in 1..(Len(word) - 1) :
          /\ SubSeq(word, 1, n) \in DOMAIN contractions
          /\ \A k \in (n + 1)..Len(word) : word[k] \in Punctuation

\* the indices of the words of the expansion of the key
ExpansionIndices(key) ==
    LET ws == split(contractions[key]) IN
    [q \in 1..Len(ws) |-> IndexFor(dictonary, ws[q])]

(* C26: the contraction map is read with the whole lowercased token,       *)
(* before any punctuation is taken out: a token whose lowercased form is a *)
(* key gives the indices of the words of its expansion, and any other      *)
(* token, also a key followed by punctuation, is not expanded: all of its  *)
(* punctuation is taken out and it gives at most one index, from one       *)
(* lookup of the cleaned word.                                             *)
C26_WholeTokenKey ==
    Converted =>
        \A i \in 1..Len(test_claim) :
            LET tokens == split(test_claim[i]) IN
            \A j \in 1..Len(tokens) :
                LET word == lower(tokens[j])
                    clean == SelectSeq(word, LAMBDA c : c \notin Punctuation)
                IN  IF word \in DOMAIN contractions
                    THEN AloneIndices(tokens[j]) = ExpansionIndices(word)
                    ELSE AloneIndices(tokens[j]) =
                             IF clean = <<>> THEN <<>> ELSE <<IndexFor(dictonary, clean)>>

C26_Witness ==
    /\ Encoded
    /\ SingleToken
    /\ PunctuatedKey(test_claim[1])
    /\ LET word == lower(test_claim[1])
           key == SelectSeq(word, LAMBDA c : c \notin Punctuation)
       IN  /\ key \in DOMAIN contractions
           /\ key \in WordsOf(dictonary)
           /\ Len(ExpansionIndices(key)) = 2
           /\ test_claim_indices = << <<IndexFor(dictonary, key)>> >>

----------------------------------------------------------------------------
\* init has printed the line s
Printed(s) == \E k \in 1..Len(init_stdout) : init_stdout[k] = s

\* the words of wordsList.npy, decoded
DecodedWords ==
    [k \in 1..Len(deployment.wordsList) |->
        [deployment.wordsList[k] EXCEPT !.word = decode(@)]]

(* C27: while init runs and after it ends, onnx_session is assigned only   *)
(* if dictonary holds the decoded words list and contractions is assigned, *)
(* and contractions only if dictonary holds the decoded list; when init    *)
(* fails at a later step, what the earlier steps assigned stays assigned   *)
(* and onnx_session stays unassigned.                                      *)
C27_InitOrder ==
    /\ globals.onnx_session.kind # "unbound" =>
          /\ globals.dictonary = [kind |-> "list of str", words |-> DecodedWords]
          /\ globals.contractions.kind = "dict"
    /\ globals.contractions.kind # "unbound" =>
          globals.dictonary = [kind |-> "list of str", words |-> DecodedWords]
    /\ Failed =>
          /\ globals.onnx_session.kind = "unbound"
          /\ Printed("Loaded the dictonary!") =>
                globals.dictonary = [kind |-> "list of str", words |-> DecodedWords]
          /\ Printed("Loaded contractions!") =>
                globals.contractions =
                    [kind |-> "dict", map |-> dict_zip(deployment.contractions_df)]
          /\ Printed(str_of_exception("UnicodeDecodeError")) =>
                globals.dictonary = [kind |-> "list of bytes", words |-> deployment.wordsList]

C27_Witness ==
    /\ Failed
    /\ Printed("Loaded the dictonary!")
    /\ Printed("Loaded contractions!")
    /\ Printed(str_of_exception("WebserviceException"))
    /\ globals.dictonary = [kind |-> "list of str", words |-> DecodedWords]
    /\ DecodedWords # <<>>
    /\ globals.contractions.kind = "dict"
    /\ globals.onnx_session.kind = "unbound"
    /\ \E c \in Callers : calls[c].pc = "returned"

----------------------------------------------------------------------------
\* a claim text without a token, or with tokens of punctuation only
BlankText(text) ==
    LET tokens == split(text) IN
    \A j \in 1..Len(tokens) : \A k \in 1..Len(tokens[j]) : tokens[j][k] \in Punctuation

\* the claim text of a request of one claim text
TextOf(raw_data) == json_loads(raw_data).value.items[1].str

----------------------------------------------------------------------------
(* C29: in the Ready state a request with no claim text, the JSON array    *)
(* [], gets the text of an error and no label: no row at all cannot be     *)
(* given the shape (1, 125), and the session is not run.                   *)
C29_EmptyBatch ==
    \A c \in Callers :
        (ReturnedReady(c) /\ calls[c].raw_data = json_dumps(JList(<<>>))) =>
            /\ calls[c].result = StrResult(str_of_exception("ValueError"))
            /\ calls[c].input_data = NoCall.input_data
            /\ calls[c].scores = <<>>

C29_Witness ==
    \E c \in Callers :
        /\ ReturnedReady(c)
        /\ calls[c].raw_data = <<Open, Close>>
        /\ calls[c].input_data_raw.shape = <<0>>
        /\ calls[c].result.type = "str"
        /\ calls[c].result.error = "cannot reshape array into shape (1,125)"
        /\ ~globals.onnx_session.model.fails

(* C30: every call of init and every call of run completes: as each        *)
(* external call returns or raises, init returns, and run returns a label  *)
(* or the text of an error, without a retry and without waiting for        *)
(* another call.                                                           *)
C30_Terminates ==
    /\ (init_pc # "not_called") ~> (init_pc = "returned")
    /\ \A c \in Callers :
          (calls[c].pc # "idle") ~>
              (calls[c].pc = "returned" /\ calls[c].result.type \in {"int", "str"})

C30_Witness ==
    \E c, d \in Callers :
        /\ init_pc = "returned"
        /\ calls[c].pc = "returned"
        /\ calls[c].called_ready
        /\ calls[c].result.type = "int"
        /\ calls[d].pc = "returned"
        /\ ~calls[d].called_ready
        /\ calls[d].result = StrResult(str_of_exception("NameError dictonary"))

====
